---------------------------- MODULE Spec2Model ----------------------------
(***************************************************************************)
(* Model of the decoder family of seq_to_seq_model/decoder.py: the four    *)
(* decoder classes (Decoder, AttentionDecoder, GloballyAttentiveDecoder,   *)
(* LocallyAttentiveDecoder), their constructors, forward steps,            *)
(* init_weights and init_embedding_weights, driven by a caller that        *)
(* threads the hidden state and the context from one step to the next.     *)
(*                                                                         *)
(* Tensors are records [shape, data, err]: data is the row-major sequence  *)
(* of the elements, err is "" or the error the operation raised; an error  *)
(* propagates through every later operation, as a Python exception ends    *)
(* the call.  Elements are fixed-point numbers with FracBits fractional    *)
(* bits (the machine's finite precision): the integer v stands for         *)
(* v / 2^FracBits, and rounding is to nearest.                             *)
(***************************************************************************)
EXTENDS Integers, Sequences, FiniteSets, TLC

\* ------------------------------------------------------------- bounds
MaxDim    == 2      \* emsize and nhid range over 1..MaxDim
MaxLayers == 2      \* nlayers ranges over 1..MaxLayers
MaxBatch  == 2      \* batch size ranges over 1..MaxBatch
MaxLen    == 2      \* source_length and max_sent_length range over 1..MaxLen
MaxSteps  == 2      \* forward steps of one decode
FracBits  == 2      \* fractional bits of an element
VocabSize == 2      \* input_size of the decoders

\* ------------------------------------------------------------- numbers
One == 2 ^ FracBits

Abs(x) == IF x < 0 THEN 0 - x ELSE x

\* F applied to x: names an intermediate value once, as an assignment does
Let(x, F(_)) == F(x)

Max2(a, b) == IF a >= b THEN a ELSE b

Min2(a, b) == IF a <= b THEN a ELSE b

\* a / b rounded to the nearest integer (b > 0), halves upwards
RoundDiv(a, b) == (2 * a + b) \div (2 * b)

\* product of two fixed-point numbers
FMul(a, b) == RoundDiv(a * b, One)

\* integer part of a fixed-point number (floor)
IntPart(x) == x \div One

\* exponents beyond this flush to 0 (underflow) or saturate
ExpCap == FracBits + 2

\* sigmoid(x) = 1 / (1 + 2^-x) on the integer part of x, rounded to FracBits bits
Sigmoid(x) ==
    LET k == IntPart(x)
    IN  IF k >= 0
        THEN LET p == 2 ^ Min2(k, ExpCap) IN RoundDiv(One * p, p + 1)
        ELSE LET p == 2 ^ Min2(0 - k, ExpCap) IN RoundDiv(One, 1 + p)

\* tanh(x) = 2 sigmoid(2x) - 1
Tanh(x) == 2 * Sigmoid(2 * x) - One

Relu(x) == IF x > 0 THEN x ELSE 0

RECURSIVE SumSeq(_)
SumSeq(s) == IF s = <<>> THEN 0 ELSE Head(s) + SumSeq(Tail(s))

RECURSIVE MaxSeq(_)
MaxSeq(s) == IF Len(s) = 1 THEN s[1] ELSE Max2(Head(s), MaxSeq(Tail(s)))

RECURSIVE ProdSeq(_)
ProdSeq(s) == IF s = <<>> THEN 1 ELSE Head(s) * ProdSeq(Tail(s))

RECURSIVE Log2Floor(_)
Log2Floor(n) == IF n <= 1 THEN 0 ELSE 1 + Log2Floor(n \div 2)

\* e^(x - m) for x <= m, as an integer multiple of 2^-ExpCap; underflows to 0
ExpRel(x, m) ==
    LET k == IntPart(x - m)
    IN  IF k < 0 - ExpCap THEN 0 ELSE 2 ^ (k + ExpCap)

\* softmax of one row of scores: each weight rounded to FracBits bits
SoftmaxRow(s) ==
    LET m == MaxSeq(s)
        e == [i \in 1..Len(s) |-> ExpRel(s[i], m)]
        z == SumSeq(e)
    IN  [i \in 1..Len(s) |-> RoundDiv(One * e[i], z)]

\* log_softmax of one row: x - m - log2(sum 2^(x - m))
LogSoftmaxRow(s) ==
    LET m == MaxSeq(s)
        e == [i \in 1..Len(s) |-> ExpRel(s[i], m)]
        z == SumSeq(e)
    IN  [i \in 1..Len(s) |-> s[i] - m - (Log2Floor(z) - ExpCap) * One]


\* elements stay within the representable range: larger magnitudes saturate
MaxMag == 2 ^ 12

Sat(x) == IF x > MaxMag THEN MaxMag ELSE IF x < 0 - MaxMag THEN 0 - MaxMag ELSE x

\* ------------------------------------------------------------- tensors
\* (data \o <<>> is data, held as a tuple)
Tensor(shape, data) == [shape |-> shape, data |-> data \o <<>>, err |-> ""]

\* the result of an operation that raised
Fail(msg) == [shape |-> <<>>, data |-> <<>>, err |-> msg]

IsErr(t) == t.err # ""

Rank(t) == Len(t.shape)

Numel(shape) == ProdSeq(shape)

Mk1(a, F(_)) == Tensor(<<a>>, [n \in 1..a |-> F(n)])

Mk2(a, b, F(_, _)) ==
    Tensor(<<a, b>>, [n \in 1..(a * b) |-> F(((n - 1) \div b) + 1, ((n - 1) % b) + 1)])

Mk3(a, b, c, F(_, _, _)) ==
    Tensor(<<a, b, c>>,
           [n \in 1..(a * b * c) |->
               F(((n - 1) \div (b * c)) + 1, (((n - 1) \div c) % b) + 1, ((n - 1) % c) + 1)])

At2(t, i, j) == t.data[(i - 1) * t.shape[2] + j]

At3(t, i, j, k) == t.data[((i - 1) * t.shape[2] + (j - 1)) * t.shape[3] + k]

\* a tensor of the given shape with every element v
Full(shape, v) == Tensor(shape, [n \in 1..Numel(shape) |-> v])

\* elementwise application
Map(t, F(_)) ==
    IF IsErr(t) THEN t ELSE Tensor(t.shape, [n \in 1..Len(t.data) |-> F(t.data[n])])

\* the shape with a dimension of size 1 inserted at (0-based) position dim
InsertDim(shape, dim) ==
    [n \in 1..(Len(shape) + 1) |->
        IF n <= dim THEN shape[n] ELSE IF n = dim + 1 THEN 1 ELSE shape[n - 1]]

\* the shape without its (0-based) dimension dim
RemoveDim(shape, dim) ==
    [n \in 1..(Len(shape) - 1) |-> IF n <= dim THEN shape[n] ELSE shape[n + 1]]

\* t.unsqueeze(dim)
Unsqueeze(t, dim) ==
    IF IsErr(t) THEN t
    ELSE IF dim > Rank(t) THEN Fail("RuntimeError: unsqueeze dimension out of range")
    ELSE Tensor(InsertDim(t.shape, dim), t.data)

\* t.squeeze(dim): drops the dimension when its size is 1, else returns t's shape
Squeeze(t, dim) ==
    IF IsErr(t) THEN t
    ELSE IF dim >= Rank(t) THEN Fail("RuntimeError: squeeze dimension out of range")
    ELSE IF t.shape[dim + 1] = 1 THEN Tensor(RemoveDim(t.shape, dim), t.data)
    ELSE t

\* t[i] (0-based) along the first dimension
Index0(t, i) ==
    IF IsErr(t) THEN t
    ELSE IF Rank(t) = 0 \/ i < 0 \/ i >= t.shape[1] THEN Fail("IndexError: index out of range")
    ELSE LET sub == RemoveDim(t.shape, 0)
             n   == Numel(sub)
         IN  Tensor(sub, [k \in 1..n |-> t.data[i * n + k]])

\* the leading dimensions of a shape (all but the last)
Lead(shape) == SubSeq(shape, 1, Len(shape) - 1)

Last(shape) == shape[Len(shape)]

\* torch.cat((a, b), dim) for dim the last dimension of a
CatLast(a, b) ==
    IF IsErr(a) THEN a
    ELSE IF IsErr(b) THEN b
    ELSE IF Rank(a) # Rank(b) \/ Rank(a) = 0
         THEN Fail("RuntimeError: cat: tensors must have the same number of dimensions")
    ELSE IF Lead(a.shape) # Lead(b.shape)
         THEN Fail("RuntimeError: cat: sizes must match except in the cat dimension")
    ELSE LET la == Last(a.shape)
             lb == Last(b.shape)
             w  == la + lb
             rows == Numel(Lead(a.shape))
         IN  Tensor(Lead(a.shape) \o <<w>>,
                    [n \in 1..(rows * w) |->
                        LET r == (n - 1) \div w
                            c == ((n - 1) % w) + 1
                        IN  IF c <= la THEN a.data[r * la + c] ELSE b.data[r * lb + (c - la)]])

\* torch.cat((a, b), dim): the code only concatenates along the last dimension of
\* its first operand; any other dim is out of range for the operands it passes
Cat(a, b, dim) ==
    IF IsErr(a) THEN a
    ELSE IF IsErr(b) THEN b
    ELSE IF dim # Rank(a) - 1 \/ dim # Rank(b) - 1
         THEN Fail("RuntimeError: cat: dimension mismatch")
    ELSE CatLast(a, b)

\* torch.transpose(t, 1, 2) of a 3-D tensor: a new tensor
Transpose12(t) ==
    IF IsErr(t) THEN t
    ELSE IF Rank(t) # 3 THEN Fail("RuntimeError: transpose dimension out of range")
    ELSE LET F(i, j, k) == At3(t, i, k, j)
         IN  Mk3(t.shape[1], t.shape[3], t.shape[2], F)

\* torch.bmm(a, b): (B, n, m) x (B, m, p) -> (B, n, p)
\* a batch product that cuts its operands to their common batch and inner size
BmmLenient(a, b) ==
    IF IsErr(a) THEN a
    ELSE IF IsErr(b) THEN b
    ELSE IF Rank(a) # 3 \/ Rank(b) # 3 THEN Fail("RuntimeError: bmm expects 3D tensors")
    ELSE LET F(i, j, k) ==
                 Sat(SumSeq([m \in 1..Min2(a.shape[3], b.shape[2]) |->
                                FMul(At3(a, i, j, m), At3(b, i, m, k))]))
         IN  Mk3(Min2(a.shape[1], b.shape[1]), a.shape[2], b.shape[3], F)

\* torch.bmm(a, b): batches and inner sizes must agree
Bmm(a, b) ==
    IF IsErr(a) THEN a
    ELSE IF IsErr(b) THEN b
    ELSE IF Rank(a) # 3 \/ Rank(b) # 3 THEN Fail("RuntimeError: bmm expects 3D tensors")
    ELSE IF a.shape[1] # b.shape[1] \/ a.shape[3] # b.shape[2]
         THEN Fail("RuntimeError: bmm size mismatch")
    ELSE LET F(i, j, k) ==
                 Sat(SumSeq([m \in 1..a.shape[3] |-> FMul(At3(a, i, j, m), At3(b, i, m, k))]))
         IN  Mk3(a.shape[1], a.shape[2], b.shape[3], F)

\* w.expand(B, *w.size()) of a 2-D parameter
Expand0(w, B) ==
    IF IsErr(w) THEN w
    ELSE LET F(i, j, k) == At2(w, j, k) IN Mk3(B, w.shape[1], w.shape[2], F)

\* v.unsqueeze(1).expand(B, n) of a 1-D tensor of B elements
ExpandCols(v, n) ==
    IF IsErr(v) THEN v
    ELSE IF Rank(v) # 1 THEN Fail("RuntimeError: expand size mismatch")
    ELSE LET F(i, j) == v.data[i] IN Mk2(v.shape[1], n, F)

\* v.expand(B, n) of a 1-D tensor of n elements
ExpandRows(v, B) ==
    IF IsErr(v) THEN v
    ELSE IF Rank(v) # 1 THEN Fail("RuntimeError: expand size mismatch")
    ELSE LET F(i, j) == v.data[j] IN Mk2(B, v.shape[1], F)

\* the dimension F.softmax / F.log_softmax normalise over when none is given
ImplicitDim(rank) == IF rank \in {0, 1, 3} THEN 0 ELSE 1

\* normalisation of a 2-D tensor row by row (dim 1) or column by column (dim 0)
Normalise2(t, dim, Row(_)) ==
    IF dim = 1
    THEN LET F(i, j) == Row([k \in 1..t.shape[2] |-> At2(t, i, k)])[j]
         IN  Mk2(t.shape[1], t.shape[2], F)
    ELSE LET F(i, j) == Row([k \in 1..t.shape[1] |-> At2(t, k, j)])[i]
         IN  Mk2(t.shape[1], t.shape[2], F)

\* a softmax that normalises over the first dimension whatever the rank
SoftmaxDimZero(t) == 0

\* the dimension F.softmax(t) normalises
SoftmaxDim(t) == ImplicitDim(Rank(t))

\* F.softmax(t) of a 2-D tensor
Softmax(t) ==
    IF IsErr(t) THEN t
    ELSE IF Rank(t) # 2 THEN Fail("RuntimeError: softmax expects a 2D tensor")
    ELSE Normalise2(t, SoftmaxDim(t), SoftmaxRow)

\* F.log_softmax(t) of a 2-D tensor
LogSoftmax(t) ==
    IF IsErr(t) THEN t
    ELSE IF Rank(t) # 2 THEN Fail("RuntimeError: log_softmax expects a 2D tensor")
    ELSE Normalise2(t, ImplicitDim(Rank(t)), LogSoftmaxRow)


\* ------------------------------------------------------------- random draws
\* torch's global generator: a state that every draw advances
RngStates == 3

NextRng(r) == (r + 1) % RngStates

\* whether the mask drawn in generator state r keeps element n
Keep(r, n) == r = 0 \/ (r = 1 /\ n % 2 = 0)

\* ------------------------------------------------------------- layers
\* nn.Embedding(input_size, emsize)(input): one weight row per token id
Embedding(weight, input) ==
    IF IsErr(input) THEN input
    ELSE IF \E n \in 1..Len(input.data) : input.data[n] < 0 \/ input.data[n] >= weight.shape[1]
         THEN Fail("IndexError: index out of range in embedding")
    ELSE LET w == weight.shape[2]
         IN  Tensor(input.shape \o <<w>>,
                    [n \in 1..(Len(input.data) * w) |->
                        At2(weight, input.data[((n - 1) \div w) + 1] + 1, ((n - 1) % w) + 1)])

\* a dropout that ignores the module's mode
DropoutActiveAlways(p, training) == p > 0

\* whether nn.Dropout(p) draws a mask: in training mode only
DropoutActive(p, training) == training /\ p > 0

\* nn.Dropout(p)(x) with the mask of generator state r
Dropout(x, p, training, r) ==
    IF IsErr(x) THEN x
    ELSE IF ~DropoutActive(p, training) THEN x
    ELSE Tensor(x.shape,
                [n \in 1..Len(x.data) |->
                    IF Keep(r, n) THEN Sat(RoundDiv(x.data[n] * One, One - p)) ELSE 0])

\* the generator state after nn.Dropout(p)
DropoutRng(p, training, r) == IF DropoutActive(p, training) THEN NextRng(r) ELSE r

\* nn.Linear(in, out)(x): every weight of output unit j is j * lin.w, the bias 0
Linear(lin, x) ==
    IF IsErr(x) THEN x
    ELSE IF Rank(x) = 0 \/ Last(x.shape) # lin.in_features
         THEN Fail("RuntimeError: size mismatch in linear")
    ELSE LET w    == Last(x.shape)
             rows == Numel(Lead(x.shape))
         IN  Tensor(Lead(x.shape) \o <<lin.out_features>>,
                    [n \in 1..(rows * lin.out_features) |->
                        LET r == (n - 1) \div lin.out_features
                            j == ((n - 1) % lin.out_features) + 1
                        IN  Sat(SumSeq([k \in 1..w |-> FMul(j * lin.w, x.data[r * w + k])]))])

\* ------------------------------------------------------------- hidden state
NoTensor == Tensor(<<0>>, <<>>)

\* a hidden state is a tuple (h, c) for LSTM and a single tensor otherwise
HTuple(h, c) == [kind |-> "tuple", h |-> h, c |-> c]

HTensor(h) == [kind |-> "tensor", h |-> h, c |-> NoTensor]

HFail(msg) == [kind |-> "error", h |-> Fail(msg), c |-> NoTensor]

HIsErr(hid) == IsErr(hid.h) \/ IsErr(hid.c)

\* hidden[0]: the first element of the tuple, or the first slice of the tensor
HiddenItem0(hid) == IF hid.kind = "tuple" THEN hid.h ELSE Index0(hid.h, 0)

\* ------------------------------------------------------------- recurrent core
\* one cell of layer l for batch row b, unit j.  a is the pre-activation
\* w * (sum of the layer input + sum of the previous hidden row), ax and ah its two
\* halves, h and c the unit's previous hidden and cell values
CellH(mode, a, ax, ah, h, c) ==
    CASE mode = "RNN_TANH" -> Tanh(a)
      [] mode = "RNN_RELU" -> Sat(Relu(a))
      [] mode = "GRU" ->
            LET r == Sigmoid(a)
                z == Sigmoid(a)
                n == Tanh(ax + FMul(r, ah))
            IN  FMul(One - z, n) + FMul(z, h)
      [] mode = "LSTM" ->
            LET cc == Sat(FMul(Sigmoid(a), c) + FMul(Sigmoid(a), Tanh(a)))
            IN  FMul(Sigmoid(a), Tanh(cc))

CellC(mode, a, c) ==
    IF mode = "LSTM" THEN Sat(FMul(Sigmoid(a), c) + FMul(Sigmoid(a), Tanh(a))) ELSE 0

\* the layers of the recurrent module from layer l on.  xin[b] is the input row of
\* batch row b, hs and cs collect the new hidden and cell rows of the layers done
RECURSIVE RnnLayers(_, _, _, _, _, _, _, _)
RnnLayers(rnn, l, xin, hid, training, r, hs, cs) ==
    IF l > rnn.num_layers THEN [x |-> xin, hs |-> hs, cs |-> cs, rng |-> r]
    ELSE LET B  == hid.h.shape[2]
             H  == rnn.hidden_size
             ax == [b \in 1..B |-> Sat(FMul(rnn.w, SumSeq(xin[b])))]
             ah == [b \in 1..B |->
                       Sat(FMul(rnn.w, SumSeq([j \in 1..H |-> At3(hid.h, l, b, j)])))]
             cv(b, j) == IF hid.kind = "tuple" THEN At3(hid.c, l, b, j) ELSE 0
             hn == [b \in 1..B |-> [j \in 1..H |->
                       CellH(rnn.mode, Sat(ax[b] + ah[b]), ax[b], ah[b],
                             At3(hid.h, l, b, j), cv(b, j))]]
             cn == [b \in 1..B |-> [j \in 1..H |->
                       CellC(rnn.mode, Sat(ax[b] + ah[b]), cv(b, j))]]
             \* dropout between the layers of the module, none after the last
             act == DropoutActive(rnn.dropout, training) /\ l < rnn.num_layers
             xo == IF act
                   THEN [b \in 1..B |-> [j \in 1..H |->
                            IF Keep(r, (b - 1) * H + j)
                            THEN Sat(RoundDiv(hn[b][j] * One, One - rnn.dropout))
                            ELSE 0]]
                   ELSE hn
         IN  RnnLayers(rnn, l + 1, xo, hid, training, IF act THEN NextRng(r) ELSE r,
                       Append(hs, hn), Append(cs, cn))

\* the form of hidden state the module accepts
HiddenKind(mode) == IF mode = "LSTM" THEN "tuple" ELSE "tensor"

\* the layers' states stacked batch first
StackHiddenBatchFirst(rnn, B, hs) ==
    LET F(b, l, j) == hs[l][b][j] IN Mk3(B, rnn.num_layers, rnn.hidden_size, F)

\* the hidden state the module returns: one row block per layer
StackHidden(rnn, B, hs) ==
    LET F(l, b, j) == hs[l][b][j] IN Mk3(rnn.num_layers, B, rnn.hidden_size, F)

\* self.rnn(x, hidden) with batch_first=True: [output, hidden, rng]
Rnn(rnn, x, hid, training, r) ==
    LET bad(msg) == [output |-> Fail(msg), hidden |-> HFail(msg), rng |-> r]
    IN  IF IsErr(x) THEN [output |-> x, hidden |-> HFail(x.err), rng |-> r]
        ELSE IF HIsErr(hid) THEN bad(IF IsErr(hid.h) THEN hid.h.err ELSE hid.c.err)
        ELSE IF Rank(x) # 3 THEN bad("RuntimeError: rnn input must have 3 dimensions")
        ELSE IF x.shape[3] # rnn.input_size
             THEN bad("RuntimeError: rnn input.size(-1) must be equal to input_size")
        ELSE IF hid.kind # HiddenKind(rnn.mode)
             THEN bad("TypeError: hidden state of the wrong form")
        ELSE IF hid.h.shape # <<rnn.num_layers, x.shape[1], rnn.hidden_size>>
                \/ (hid.kind = "tuple" /\ hid.c.shape # hid.h.shape)
             THEN bad("RuntimeError: expected hidden size (num_layers, batch, hidden_size)")
        ELSE LET B   == x.shape[1]
                 xin == [b \in 1..B |-> [k \in 1..x.shape[3] |-> At3(x, b, 1, k)]]
             IN  Let(RnnLayers(rnn, 1, xin, hid, training, r, <<>>, <<>>), LAMBDA res :
                 [output |-> LET O(b, t, j) == res.x[b][j] IN Mk3(B, 1, rnn.hidden_size, O),
                  hidden |-> IF hid.kind = "tuple"
                             THEN HTuple(StackHidden(rnn, B, res.hs),
                                         StackHidden(rnn, B, res.cs))
                             ELSE HTensor(StackHidden(rnn, B, res.hs)),
                  rng    |-> res.rng])


\* ------------------------------------------------------------- construction
Variants == {"Decoder", "AttentionDecoder", "GloballyAttentiveDecoder", "LocallyAttentiveDecoder"}

\* the values of config.model the constructors accept
SupportedModels == {"LSTM", "GRU", "RNN_TANH", "RNN_RELU"}

\* the values of config.model a caller may pass
ModelNames == SupportedModels \cup {"TRANSFORMER"}

\* the dictionary of the constructors' else branch
Nonlinearity == [RNN_TANH |-> "tanh", RNN_RELU |-> "relu"]

NoDecoder == [variant |-> "None"]

WindowSize == 3

LinearLayer(in, out, w) == [in_features |-> in, out_features |-> out, w |-> w]

\* nn.Embedding(input_size, emsize).weight as first drawn
EmbeddingWeight(input_size, emsize, th) ==
    LET F(v, k) == IF (v + k) % 2 = 0 THEN th ELSE 0 IN Mk2(input_size, emsize, F)

\* the attributes a constructor assigns before it looks at config.model, in order
PrefixOrder(variant) ==
    CASE variant = "Decoder" -> <<"config", "embedding", "drop", "out">>
      [] variant = "AttentionDecoder" ->
            <<"config", "embedding", "attn", "attn_combine", "drop", "out">>
      [] variant = "GloballyAttentiveDecoder" ->
            <<"config", "weight", "embedding", "attn_combine", "drop", "out">>
      [] variant = "LocallyAttentiveDecoder" ->
            <<"config", "weight", "weight_p", "weight_v", "embedding", "attn_combine",
              "drop", "out", "window_size">>

\* the attributes whose assignment allocates a tensor
TensorAttrs == {"embedding", "attn", "attn_combine", "out", "weight", "weight_p", "weight_v", "rnn"}

\* the value a constructor assigns to an attribute of the prefix
PrefixValue(name, input_size, max_sent_length, cfg, th) ==
    CASE name = "config"       -> cfg
      [] name = "embedding"    -> EmbeddingWeight(input_size, cfg.emsize, th)
      [] name = "drop"         -> [p |-> cfg.dropout]
      [] name = "out"          -> LinearLayer(cfg.nhid, input_size, th)
      [] name = "attn"         -> LinearLayer(cfg.nhid * 2, max_sent_length, th)
      [] name = "attn_combine" -> LinearLayer(cfg.nhid * 2, cfg.nhid, th)
      [] name = "weight"       -> Full(<<cfg.nhid, cfg.nhid>>, th)
      [] name = "weight_p"     -> Full(<<cfg.nhid, cfg.nhid>>, th)
      [] name = "weight_v"     -> Full(<<1, cfg.nhid>>, th)
      [] name = "window_size"  -> WindowSize

\* the input_size of the recurrent module of a variant
RnnInputSize(variant, cfg) ==
    IF variant = "GloballyAttentiveDecoder" THEN cfg.emsize + cfg.nhid ELSE cfg.emsize

RnnModule(mode, input_size, cfg, th) ==
    [mode |-> mode, input_size |-> input_size, hidden_size |-> cfg.nhid,
     num_layers |-> cfg.nlayers, dropout |-> cfg.dropout, w |-> th]

NoRnn == [mode |-> "None"]

\* a constructor that falls back to a tanh network instead of raising
RecurrentForLenient(variant, cfg, th) ==
    [err |-> "", rnn |-> RnnModule(IF cfg.model \in SupportedModels THEN cfg.model ELSE "RNN_TANH",
                                   RnnInputSize(variant, cfg), cfg, th)]

\* the if/else on config.model that ends every constructor
RecurrentFor(variant, cfg, th) ==
    IF cfg.model \in {"LSTM", "GRU"}
    THEN [err |-> "", rnn |-> RnnModule(cfg.model, RnnInputSize(variant, cfg), cfg, th)]
    ELSE IF cfg.model \in DOMAIN Nonlinearity
         THEN [err |-> "", rnn |-> RnnModule(cfg.model, RnnInputSize(variant, cfg), cfg, th)]
         ELSE [err |-> "ValueError: invalid option for model", rnn |-> NoRnn]

\* the tensor-allocating attributes among a sequence of attribute names, in order
RECURSIVE Allocations(_)
Allocations(names) ==
    IF names = <<>> THEN <<>>
    ELSE (IF Head(names) \in TensorAttrs THEN <<Head(names)>> ELSE <<>>) \o Allocations(Tail(names))

\* __init__ of a variant: the object (or none when it raised), the error, and the
\* tensors allocated, in order, by the time it returned or raised
Constructor(variant, input_size, max_sent_length, cfg, th) ==
    LET order == PrefixOrder(variant)
        pre   == [n \in {order[i] : i \in 1..Len(order)} |->
                     PrefixValue(n, input_size, max_sent_length, cfg, th)]
        rec   == RecurrentFor(variant, cfg, th)
    IN  IF rec.err # ""
        THEN [obj |-> NoDecoder, err |-> rec.err, alloc |-> Allocations(order)]
        ELSE [obj |-> [variant |-> variant, fields |-> ("rnn" :> rec.rnn) @@ pre,
                       training |-> TRUE],
              err |-> "", alloc |-> Allocations(order \o <<"rnn">>)]


\* ------------------------------------------------------------- elementwise helpers
\* a binary elementwise operation on tensors of one shape
Zip(a, b, F(_, _)) ==
    IF IsErr(a) THEN a
    ELSE IF IsErr(b) THEN b
    ELSE IF a.shape # b.shape THEN Fail("RuntimeError: inconsistent tensor size")
    ELSE Tensor(a.shape, [n \in 1..Len(a.data) |-> F(a.data[n], b.data[n])])

\* 2^x for a fixed-point x, on the integer part of x
Exp(x) ==
    LET k == IntPart(x)
    IN  IF k >= 0 THEN Sat(One * 2 ^ Min2(k, ExpCap)) ELSE RoundDiv(One, 2 ^ Min2(0 - k, ExpCap))

\* torch.range(0, n - 1, 1)
Range(n) == LET F(i) == (i - 1) * One IN Mk1(n, F)

\* t.size(d) of a tensor that may lack the dimension
SizeAt(t, d) == IF IsErr(t) \/ d >= Rank(t) THEN 0 ELSE t.shape[d + 1]

\* ------------------------------------------------------------- forward
\* the calling convention with the encoder outputs before the previous context
ForwardParamsSpecOrder(variant) ==
    CASE variant = "Decoder" -> <<"input", "hidden">>
      [] variant = "AttentionDecoder" -> <<"input", "hidden", "encoder_outputs">>
      [] variant = "GloballyAttentiveDecoder" ->
            <<"input", "hidden", "encoder_outputs", "last_context">>
      [] variant = "LocallyAttentiveDecoder" -> <<"input", "hidden", "encoder_outputs">>

\* the positional parameters of forward, after self
ForwardParams(variant) ==
    CASE variant = "Decoder" -> <<"input", "hidden">>
      [] variant = "AttentionDecoder" -> <<"input", "hidden", "encoder_outputs">>
      [] variant = "GloballyAttentiveDecoder" ->
            <<"input", "hidden", "last_context", "encoder_outputs">>
      [] variant = "LocallyAttentiveDecoder" -> <<"input", "hidden", "encoder_outputs">>

\* the names of the values forward returns, in order
ForwardReturns(variant) ==
    CASE variant = "Decoder" -> <<"output", "hidden">>
      [] variant = "AttentionDecoder" -> <<"output", "hidden", "attn_weights">>
      [] variant = "GloballyAttentiveDecoder" ->
            <<"output", "hidden", "context_vector", "attn_weights">>
      [] variant = "LocallyAttentiveDecoder" -> <<"output", "hidden", "attn_weights">>

\* the state of the loop over range(nlayers): the running output and hidden state,
\* the generator state and, of the operations embedding, drop, relu and rnn, those
\* run so far
LoopState(output, hidden, rng, ops) ==
    [output |-> output, hidden |-> hidden, rng |-> rng, ops |-> ops]

\* for i in range(self.config.nlayers): [relu;] rnn; [drop]
RECURSIVE RnnLoop(_, _, _, _, _)
RnnLoop(dec, i, st, relu, drop) ==
    IF i >= dec.fields.config.nlayers \/ IsErr(st.output) THEN st
    ELSE Let(Rnn(dec.fields.rnn, IF relu THEN Map(st.output, Relu) ELSE st.output,
                 st.hidden, dec.training, st.rng), LAMBDA res :
         LET p   == dec.fields.drop.p
             ok  == ~IsErr(res.output)
             out == IF drop THEN Dropout(res.output, p, dec.training, res.rng) ELSE res.output
             r2  == IF drop /\ ok THEN DropoutRng(p, dec.training, res.rng) ELSE res.rng
             ops == st.ops \o (IF relu THEN <<"relu">> ELSE <<>>)
                           \o (IF ok THEN <<"rnn">> ELSE <<>>)
                           \o (IF ok /\ drop THEN <<"drop">> ELSE <<>>)
         IN  RnnLoop(dec, i + 1, LoopState(out, res.hidden, r2, ops), relu, drop))

\* self.drop(self.embedding(input)): [embedded, rng]
Embedded(dec, input, r) ==
    Let(Embedding(dec.fields.embedding, input), LAMBDA e :
    [embedded |-> Dropout(e, dec.fields.drop.p, dec.training, r),
     rng |-> IF IsErr(e) THEN r ELSE DropoutRng(dec.fields.drop.p, dec.training, r)])

\* what a forward call hands back: the returned values by name, the generator state
\* it leaves, the operations it completed, the predicted position of the local
\* variant, and the arguments and the object as the call leaves them
Result(output, hidden, context, attn, pt, rng, ops, after, self) ==
    [output |-> output, hidden |-> hidden, context_vector |-> context, attn_weights |-> attn,
     pt |-> pt, rng |-> rng, ops |-> ops, after |-> after, self |-> self]

\* a layer loop that applies dropout to the recurrent output in every class
DropAfterRnnAll(variant) == TRUE

\* whether the layer loop of the class applies self.drop to the recurrent output
DropAfterRnn(variant) == variant \in {"Decoder", "AttentionDecoder"}

\* whether the layer loop of the class applies F.relu to the recurrent input
ReluBeforeRnn(variant) == variant = "AttentionDecoder"

\* Decoder.forward(input, hidden)
DecoderForward(dec, a, r) ==
    Let(Embedded(dec, a.input, r), LAMBDA em :
    Let(RnnLoop(dec, 0, LoopState(Unsqueeze(em.embedded, 1), a.hidden, em.rng,
                                  <<"embedding", "drop">>),
                ReluBeforeRnn("Decoder"), DropAfterRnn("Decoder")), LAMBDA st :
    Let(LogSoftmax(Linear(dec.fields.out, Squeeze(st.output, 1))), LAMBDA out :
    Result(out, st.hidden, NoTensor, NoTensor, NoTensor, st.rng, st.ops, a, dec))))

\* the layer AttentionDecoder.forward reads the hidden state of
FinalLayerIndex(hidden) == SizeAt(HiddenItem0(hidden), 0) - 1

\* hidden[0][final_layer_index]: the slice of the hidden state the attention
\* scores are computed from
AttendedHidden(hidden) == Index0(HiddenItem0(hidden), FinalLayerIndex(hidden))

\* AttentionDecoder.forward(input, hidden, encoder_outputs)
AttentionForward(dec, a, r) ==
    Let(Embedded(dec, a.input, r), LAMBDA em :
    Let(AttendedHidden(a.hidden), LAMBDA sel :
    Let(Softmax(Linear(dec.fields.attn, Cat(em.embedded, sel, 1))), LAMBDA attn_weights :
    Let(Bmm(Unsqueeze(attn_weights, 1), a.encoder_outputs), LAMBDA attn_applied :
    Let(Cat(em.embedded, Squeeze(attn_applied, 1), 1), LAMBDA cat :
    Let(Unsqueeze(Linear(dec.fields.attn_combine, cat), 1), LAMBDA x0 :
    Let(RnnLoop(dec, 0, LoopState(x0, a.hidden, em.rng, <<"embedding", "drop">>),
                ReluBeforeRnn("AttentionDecoder"), DropAfterRnn("AttentionDecoder")),
        LAMBDA st :
    Let(LogSoftmax(Linear(dec.fields.out, Squeeze(st.output, 1))), LAMBDA out :
    Result(out, st.hidden, NoTensor, attn_weights, NoTensor, st.rng, st.ops, a, dec)))))))))

\* a transpose that works in place (transpose_)
TransposeArgInPlace(t) == Transpose12(t)

\* the argument of torch.transpose(encoder_outputs, 1, 2) once the call is over:
\* torch.transpose returns a new tensor and leaves its argument as it was
TransposeArg(t) == t

\* softmax(output . W . encoder_outputs^T), the bilinear scores of the global and
\* the local variant
BilinearAttention(dec, output, encoder_outputs) ==
    Let(Bmm(Expand0(dec.fields.weight, SizeAt(encoder_outputs, 0)),
            Transpose12(encoder_outputs)), LAMBDA weighted_encoder_output :
    Let(Bmm(output, weighted_encoder_output), LAMBDA score :
    Softmax(Squeeze(score, 1))))

\* GloballyAttentiveDecoder.forward(input, hidden, last_context, encoder_outputs)
GlobalForward(dec, a, r) ==
    Let(Embedded(dec, a.input, r), LAMBDA em :
    Let(RnnLoop(dec, 0, LoopState(Cat(Unsqueeze(em.embedded, 1), a.last_context, 2),
                                  a.hidden, em.rng, <<"embedding", "drop">>),
                ReluBeforeRnn("GloballyAttentiveDecoder"),
                DropAfterRnn("GloballyAttentiveDecoder")), LAMBDA st :
    Let(BilinearAttention(dec, st.output, a.encoder_outputs), LAMBDA attn_weights :
    Let(Bmm(Unsqueeze(attn_weights, 1), a.encoder_outputs), LAMBDA context_vector :
    Let(Linear(dec.fields.attn_combine,
               Cat(Squeeze(context_vector, 1), Squeeze(st.output, 1), 1)),
        LAMBDA attention_combine :
    Let(LogSoftmax(Linear(dec.fields.out, attention_combine)), LAMBDA out :
    Result(out, st.hidden, context_vector, attn_weights, NoTensor, st.rng, st.ops,
           [a EXCEPT !.encoder_outputs = TransposeArg(@)], dec)))))))

\* a predicted position squashed by tanh
PtSquashTanh(x) == Tanh(x)

\* the squashing that bounds the predicted position of the local variant
PtSquash(x) == Sigmoid(x)

\* p_t = source_length * sigmoid(w_v . tanh(W_p . output^T)), one per batch row
PredictedPosition(dec, output, encoder_outputs) ==
    LET B   == SizeAt(encoder_outputs, 0)
        S   == SizeAt(encoder_outputs, 1)
        MulS(x) == x * S
    IN  Let(Map(Bmm(Expand0(dec.fields.weight_p, B), Transpose12(output)), Tanh), LAMBDA th :
        Let(Map(Bmm(Expand0(dec.fields.weight_v, B), th), PtSquash), LAMBDA pt_sigmoid :
        Map(Squeeze(Squeeze(pt_sigmoid, 1), 1), MulS)))

\* exp(-(s - p_t)^2 / (2 (window_size / 2)^2)) for every source position s
Emphasis(dec, pt, encoder_outputs) ==
    LET B   == SizeAt(encoder_outputs, 0)
        S   == SizeAt(encoder_outputs, 1)
        W   == dec.fields.window_size
        cur == ExpandRows(Range(S), B)
        SqDiff(x, y) == Sat(FMul(x - y, x - y))
        nominator == Zip(cur, ExpandCols(pt, S), SqDiff)
        \* nominator / (-2 * (W / 2) * (W / 2)) = -(2 * nominator) / (W * W)
        Gauss(x) == Exp(0 - RoundDiv(2 * x, W * W))
    IN  Map(nominator, Gauss)

\* LocallyAttentiveDecoder.forward(input, hidden, encoder_outputs)
LocalForward(dec, a, r) ==
    LET DivS(x) == RoundDiv(x, SizeAt(a.encoder_outputs, 1))
    IN  Let(Embedded(dec, a.input, r), LAMBDA em :
        Let(RnnLoop(dec, 0, LoopState(Unsqueeze(em.embedded, 1), a.hidden, em.rng,
                                      <<"embedding", "drop">>),
                    ReluBeforeRnn("LocallyAttentiveDecoder"),
                    DropAfterRnn("LocallyAttentiveDecoder")), LAMBDA st :
        Let(BilinearAttention(dec, st.output, a.encoder_outputs), LAMBDA plain :
        Let(PredictedPosition(dec, st.output, a.encoder_outputs), LAMBDA pt :
        Let(Zip(plain, Emphasis(dec, pt, a.encoder_outputs), FMul), LAMBDA attn_weights :
        Let(Map(Bmm(Unsqueeze(attn_weights, 1), a.encoder_outputs), DivS),
            LAMBDA context_vector :
        Let(Linear(dec.fields.attn_combine,
                   Cat(Squeeze(context_vector, 1), Squeeze(st.output, 1), 1)),
            LAMBDA attention_combine :
        Let(LogSoftmax(Linear(dec.fields.out, attention_combine)), LAMBDA out :
        Result(out, st.hidden, NoTensor, attn_weights, pt, st.rng, st.ops,
               [a EXCEPT !.encoder_outputs = TransposeArg(@)], dec)))))))))

\* forward of the object's class on arguments bound by name
Forward(dec, a, r) ==
    CASE dec.variant = "Decoder" -> DecoderForward(dec, a, r)
      [] dec.variant = "AttentionDecoder" -> AttentionForward(dec, a, r)
      [] dec.variant = "GloballyAttentiveDecoder" -> GlobalForward(dec, a, r)
      [] dec.variant = "LocallyAttentiveDecoder" -> LocalForward(dec, a, r)

\* the error a forward call raised, "" when it returned
Raised(res) ==
    IF IsErr(res.output) THEN res.output.err
    ELSE IF HIsErr(res.hidden) THEN res.hidden.h.err
    ELSE ""


\* ------------------------------------------------------------- init_weights
\* the attributes init_weights reads from self
InitWeightsAttrs(variant) ==
    IF variant = "Decoder"
    THEN [type |-> "rnn_type", layers |-> "nlayers", hid |-> "nhid"]
    ELSE [type |-> "rnn_type", layers |-> "n_layers", hid |-> "hidden_size"]

\* init_weights(bsz): zero tensors shaped by the attributes of self; reading an
\* attribute the constructor never assigned raises AttributeError
InitWeights(dec, bsz) ==
    LET n == InitWeightsAttrs(dec.variant)
        missing(x) == x \notin DOMAIN dec.fields
    IN  IF missing(n.type) THEN HFail("AttributeError: rnn_type")
        ELSE IF missing(n.layers) THEN HFail("AttributeError: " \o n.layers)
        ELSE IF missing(n.hid) THEN HFail("AttributeError: " \o n.hid)
        ELSE LET z == Full(<<dec.fields[n.layers], bsz, dec.fields[n.hid]>>, 0)
             IN  IF dec.fields[n.type] = "LSTM" THEN HTuple(z, z) ELSE HTensor(z)

\* ------------------------------------------------------------- init_embedding_weights
\* the pretrained table and the numpy matrix hold doubles: ExtraBits more fractional
\* bits than the elements of the embedding matrix
ExtraBits == 1

\* torch.from_numpy(pretrained_weight) copied into the float embedding matrix: each
\* double rounded to the nearest element value
ToSingle(v) == RoundDiv(v, 2 ^ ExtraBits)

\* helper.initialize_out_of_vocab_words(dimension): np.random.normal(size=dimension)
\* in numpy generator state r, as doubles
OutOfVocabWords(dimension, r) ==
    [k \in 1..dimension |-> (r - 1) * One * (2 ^ ExtraBits) + k]

\* an initialiser that finds no word in the table
InTableNever(dictionary, embeddings_index, i) == FALSE

\* whether row i is copied from the pretrained table
InTable(dictionary, embeddings_index, i) == dictionary[i + 1] \in DOMAIN embeddings_index

\* the rows of pretrained_weight from row i on, with the numpy generator state left
RECURSIVE PretrainedRows(_, _, _, _, _, _)
PretrainedRows(dictionary, embeddings_index, embedding_dim, i, r, rows) ==
    IF i >= Len(dictionary) THEN [rows |-> rows, nprng |-> r]
    ELSE IF InTable(dictionary, embeddings_index, i)
         THEN PretrainedRows(dictionary, embeddings_index, embedding_dim, i + 1, r,
                             Append(rows, embeddings_index[dictionary[i + 1]]))
         ELSE PretrainedRows(dictionary, embeddings_index, embedding_dim, i + 1, NextRng(r),
                             Append(rows, OutOfVocabWords(embedding_dim, r)))

\* init_embedding_weights(dictionary, embeddings_index, embedding_dim): the embedding
\* matrix after the copy, and the numpy generator state
InitEmbeddingWeights(dictionary, embeddings_index, embedding_dim, r) ==
    Let(PretrainedRows(dictionary, embeddings_index, embedding_dim, 0, r, <<>>), LAMBDA pw :
    [weight |-> LET F(i, k) == ToSingle(pw.rows[i][k])
                IN  Mk2(Len(dictionary), embedding_dim, F),
     nprng  |-> pw.nprng])

\* ------------------------------------------------------------- state
VARIABLES
    pc,               \* "start", "failed", "ready", "decoding", "returned", "raised"
    dec,              \* the decoder object, NoDecoder before and after a failed construction
    ctor,             \* the last constructor call: its arguments, error and allocations
    input,            \* the caller's token batch
    hidden,           \* the caller's hidden state
    last_context,     \* the caller's previous context (global variant)
    encoder_outputs,  \* the caller's encoder outputs
    start,            \* what the decode started from
    ret,              \* the last call of forward or init_weights and what it gave
    prev,             \* what the forward call before the last one gave
    steps,            \* forward calls made in this decode
    rng,              \* torch's global generator
    nprng             \* numpy's global generator

vars == <<pc, dec, ctor, input, hidden, last_context, encoder_outputs, start, ret, prev,
          steps, rng, nprng>>

caller == <<input, hidden, last_context, encoder_outputs>>

\* ------------------------------------------------------------- inputs
\* the value the parameter tensors are filled with when the constructor draws them
\* in generator state r: 1, a large value, -1
DrawnWeight(r) == IF r = 0 THEN One ELSE IF r = 1 THEN ExpCap * One ELSE 0 - One

\* dropout probabilities: none, and one half
Dropouts == {0, One \div 2}

Configs ==
    [model : ModelNames, emsize : 1..MaxDim, nhid : 1..MaxDim, nlayers : 1..MaxLayers,
     dropout : Dropouts]

NoCall == [op |-> "none"]

NoStart == [B |-> 0]

\* a token batch: row b holds token (t0 + b) mod input_size
Tokens(B, t0) == LET F(b) == (t0 + b) % VocabSize IN Mk1(B, F)

\* encoder outputs of shape (B, S, nhid) with elements in {-1, 0, 1}
EncoderOutputs(B, S, H) == LET F(b, t, k) == (((b + t + k) % 3) - 1) * One IN Mk3(B, S, H, F)

\* the hidden state a decode starts from: every element h0
EncoderHidden(cfg, B, h0) ==
    LET t == Full(<<cfg.nlayers, B, cfg.nhid>>, h0)
    IN  IF cfg.model = "LSTM" THEN HTuple(t, t) ELSE HTensor(t)

\* ------------------------------------------------------------- actions
Init ==
    /\ pc = "start"
    /\ dec = NoDecoder
    /\ ctor = NoCall
    /\ input = NoTensor
    /\ hidden = HTensor(NoTensor)
    /\ last_context = NoTensor
    /\ encoder_outputs = NoTensor
    /\ start = NoStart
    /\ ret = NoCall
    /\ prev = NoCall
    /\ steps = 0
    /\ rng \in 0..(RngStates - 1)
    /\ nprng = 0

\* a caller constructs one of the four decoders with a configuration of cfgs
ConstructIn(cfgs) ==
    /\ pc = "start"
    /\ \E variant \in Variants, cfg \in cfgs, msl \in 1..MaxLen :
       \E c \in {Constructor(variant, VocabSize,
                               IF variant = "AttentionDecoder" THEN msl ELSE 0,
                               cfg, DrawnWeight(rng))} :
              /\ dec' = c.obj
              /\ ctor' = [op |-> "__init__", variant |-> variant, model |-> cfg.model,
                          err |-> c.err, alloc |-> c.alloc]
              /\ pc' = IF c.err = "" THEN "ready" ELSE "failed"
    /\ rng' = NextRng(rng)
    /\ UNCHANGED <<caller, start, ret, prev, steps, nprng>>

Construct == ConstructIn(Configs)

\* nn.Module.train(mode): the object's training flag
SetTraining ==
    /\ pc = "ready"
    /\ \E mode \in BOOLEAN :
          /\ mode # dec.training
          /\ dec' = [dec EXCEPT !.training = mode]
    /\ UNCHANGED <<pc, ctor, caller, start, ret, prev, steps, rng, nprng>>

\* init_weights(bsz)
CallInitWeights ==
    /\ pc = "ready"
    /\ \E bsz \in 1..MaxBatch :
       \E h \in {InitWeights(dec, bsz)} :
              ret' = [op |-> "init_weights", bsz |-> bsz, hidden |-> h,
                      raised |-> IF HIsErr(h) THEN h.h.err ELSE ""]
    /\ UNCHANGED <<pc, dec, ctor, caller, start, prev, steps, rng, nprng>>

\* the caller sets a decode up: tokens, the encoder's hidden state and outputs, and
\* a zero context
StartDecode ==
    /\ pc = "ready"
    /\ \E B \in 1..MaxBatch, S \in 1..MaxLen :
          LET cfg == dec.fields.config
              h0  == 0
          IN  /\ input' = Tokens(B, 0)
              /\ hidden' = EncoderHidden(cfg, B, h0)
              /\ last_context' = Full(<<B, 1, cfg.nhid>>, 0)
              /\ encoder_outputs' = EncoderOutputs(B, S, cfg.nhid)
              /\ start' = [B |-> B, S |-> S, hidden |-> EncoderHidden(cfg, B, h0),
                           encoder_outputs |-> EncoderOutputs(B, S, cfg.nhid)]
    /\ pc' = "decoding"
    /\ ret' = NoCall
    /\ prev' = NoCall
    /\ steps' = 0
    /\ UNCHANGED <<dec, ctor, rng, nprng>>

\* the caller's variable of a name
CallerVar(name) ==
    CASE name = "input" -> input
      [] name = "hidden" -> hidden
      [] name = "last_context" -> last_context
      [] name = "encoder_outputs" -> encoder_outputs

\* positional binding: parameter k of forward receives argument k
Bind(variant, argnames) ==
    LET ps == ForwardParams(variant)
    IN  [p \in {ps[k] : k \in 1..Len(ps)} |->
            argnames[CHOOSE k \in 1..Len(ps) : ps[k] = p]]

\* the value the caller's variable v holds once the call is over
AfterCall(v, used, after) ==
    IF \E p \in DOMAIN used : used[p] = v
    THEN after[CHOOSE p \in DOMAIN used : used[p] = v]
    ELSE CallerVar(v)

\* what ret keeps of a forward call for the next call to be compared with
Outcome(r) ==
    [raised |-> r.raised, output |-> r.output, hidden |-> r.hidden,
     context_vector |-> r.context_vector, attn_weights |-> r.attn_weights,
     training |-> r.training]

\* one forward call: the arguments are the caller's variables, passed in the order
\* the class declares them or in the order (.., encoder_outputs, last_context); the
\* call repeats the one before it when nothing was fed in between and the order is
\* the same
ForwardStep ==
    /\ pc \in {"decoding", "returned"}
    /\ steps < MaxSteps
    /\ \E argnames \in {ForwardParams(dec.variant), ForwardParamsSpecOrder(dec.variant)} :
       \E again \in {pc = "returned" /\ ret.op = "forward" /\ ret.argnames = argnames} :
       \E used \in {Bind(dec.variant, argnames)} :
       \E res \in {Forward(dec, [p \in DOMAIN used |-> CallerVar(used[p])], rng)} :
          LET err == Raised(res)
          IN  /\ ret' = [op |-> "forward", argnames |-> argnames, used |-> used,
                         raised |-> err,
                         names |-> IF err = "" THEN ForwardReturns(dec.variant) ELSE <<>>,
                         output |-> res.output, hidden |-> res.hidden,
                         context_vector |-> res.context_vector,
                         attn_weights |-> res.attn_weights, pt |-> res.pt, ops |-> res.ops,
                         training |-> dec.training, repeat |-> again]
              /\ rng' = res.rng
              /\ dec' = res.self
              /\ input' = AfterCall("input", used, res.after)
              /\ hidden' = AfterCall("hidden", used, res.after)
              /\ last_context' = AfterCall("last_context", used, res.after)
              /\ encoder_outputs' = AfterCall("encoder_outputs", used, res.after)
              /\ pc' = IF err = "" THEN "returned" ELSE "raised"
    /\ prev' = IF ret.op = "forward" THEN Outcome(ret) ELSE NoCall
    /\ steps' = steps + 1
    /\ UNCHANGED <<ctor, start, nprng>>

\* the caller threads the returned hidden state (and, for the global variant, the
\* returned context) into the next step and moves to the next token
Feed ==
    /\ pc = "returned"
    /\ steps < MaxSteps
    /\ hidden' = ret.hidden
    /\ last_context' = IF dec.variant = "GloballyAttentiveDecoder"
                       THEN ret.context_vector ELSE last_context
    /\ input' = LET Nxt(t) == (t + 1) % VocabSize IN Map(input, Nxt)
    /\ pc' = "decoding"
    /\ UNCHANGED <<dec, ctor, encoder_outputs, start, ret, prev, steps, rng, nprng>>

Next == Construct \/ SetTraining \/ CallInitWeights \/ StartDecode \/ ForwardStep \/ Feed

Spec == Init /\ [][Next]_vars


\* ------------------------------------------------------------- embedding initialisation
\* The embedding initialiser has its own specification: the decoders
\* differ in emsize only, and a caller runs init_embedding_weights up to MaxInits
\* times with a vocabulary of input_size words and a pretrained table of doubles.
MaxInits == 2

Words == {"a", "b", "c"}

\* the pretrained vector of a word: doubles, some of them no element value
PretrainedVector(w, dim) ==
    [k \in 1..dim |-> (IF w = "a" THEN 2 ELSE IF w = "b" THEN 3 ELSE 5) + 2 * k]

\* dictionary.idx2word: input_size distinct words
Dictionaries ==
    {d \in [1..VocabSize -> Words] : \A i, j \in 1..VocabSize : i # j => d[i] # d[j]}

EmbedConfigs == {c \in Configs : c.model = "GRU" /\ c.nhid = 1 /\ c.nlayers = 1 /\ c.dropout = 0}

ConstructPlain == ConstructIn(EmbedConfigs)

\* init_embedding_weights(dictionary, embeddings_index, embedding_dim)
CallInitEmbeddingWeights ==
    /\ pc = "ready"
    /\ steps < MaxInits
    /\ \E dictionary \in Dictionaries, known \in SUBSET Words :
       \E embedding_dim \in {dec.fields.config.emsize} :
       \E embeddings_index \in {[w \in known |-> PretrainedVector(w, embedding_dim)]} :
       \E res \in {InitEmbeddingWeights(dictionary, embeddings_index, embedding_dim, nprng)} :
          /\ dec' = [dec EXCEPT !.fields.embedding = res.weight]
          /\ nprng' = res.nprng
          /\ ret' = [op |-> "init_embedding_weights", dictionary |-> dictionary,
                     embeddings_index |-> embeddings_index,
                     rerun |-> /\ ret.op = "init_embedding_weights"
                               /\ ret.dictionary = dictionary
                               /\ ret.embeddings_index = embeddings_index]
          /\ prev' = dec.fields.embedding
    /\ steps' = steps + 1
    /\ UNCHANGED <<pc, ctor, caller, start, rng>>

InitEmbed == Init /\ rng = 0

NextEmbed == ConstructPlain \/ CallInitEmbeddingWeights

SpecEmbed == InitEmbed /\ [][NextEmbed]_vars


\* ------------------------------------------------------------- properties
\* the configuration of the decoder under decode
Cfg == dec.fields.config

\* the last operation was a forward call that returned
Returned == ret.op = "forward" /\ ret.raised = ""

\* the value the last forward call received for parameter p
Arg(p) == CallerVar(ret.used[p])

\* row b (from 0) of an attention matrix
AttnRow(t, b) == [s \in 1..t.shape[2] |-> At2(t, b + 1, s)]

\* C1: init_weights(b) returns a hidden state of zeros of shape
\* (num_layers, b, hidden_dim): one such tensor for GRU and the plain recurrent
\* types, a pair of them for LSTM.
C1_InitWeightsReturnsZeros ==
    ret.op = "init_weights" =>
        LET z == Full(<<Cfg.nlayers, ret.bsz, Cfg.nhid>>, 0)
        IN  /\ ret.raised = ""
            /\ ret.hidden = IF Cfg.model = "LSTM" THEN HTuple(z, z) ELSE HTensor(z)

\* C2 as stated: a constructor given a model outside the four supported ones
\* raises before any tensor is allocated and no decoder object is produced.
C2_NoTensorBeforeConfigError ==
    (ctor.op = "__init__" /\ ctor.model \notin SupportedModels) =>
        /\ ctor.err # ""
        /\ dec = NoDecoder
        /\ ctor.alloc = <<>>

\* C2: a constructor given a model outside the four supported ones raises a
\* configuration error and produces no decoder object; the error is raised after
\* the embedding, projection and attention tensors are allocated and before the
\* recurrent module is; a supported model raises nothing.
C2_ConfigErrorBeforeRecurrentModule ==
    ctor.op = "__init__" =>
        IF ctor.model \in SupportedModels
        THEN ctor.err = "" /\ pc # "failed" /\ dec # NoDecoder
        ELSE /\ ctor.err = "ValueError: invalid option for model"
             /\ pc = "failed"
             /\ dec = NoDecoder
             /\ \A i \in 1..Len(ctor.alloc) : ctor.alloc[i] # "rnn"
             /\ \E i, j \in 1..Len(ctor.alloc) :
                    ctor.alloc[i] = "embedding" /\ ctor.alloc[j] = "out"

C2_Witness ==
    pc = "failed" /\ ctor.model = "TRANSFORMER" /\ ctor.variant = "LocallyAttentiveDecoder"

\* C3: in every forward step of the naive and the global attention decoder that
\* returns, the attention weights have shape (batch, source_length), every weight
\* is non-negative, and each row sums to 1 within the rounding of its entries.
C3_AttentionRowsSumToOne ==
    (Returned /\ dec.variant \in {"AttentionDecoder", "GloballyAttentiveDecoder"}) =>
        LET w == ret.attn_weights
            S == SizeAt(Arg("encoder_outputs"), 1)
        IN  /\ w.shape = <<SizeAt(Arg("input"), 0), S>>
            /\ \A i \in 1..Len(w.data) : w.data[i] >= 0
            /\ \A b \in 0..(w.shape[1] - 1) : 2 * Abs(SumSeq(AttnRow(w, b)) - One) <= S

C3_Witness ==
    /\ Returned
    /\ dec.variant = "GloballyAttentiveDecoder"
    /\ ret.attn_weights.shape = <<MaxBatch, MaxLen>>
    /\ \E i, j \in 1..Len(ret.attn_weights.data) :
           ret.attn_weights.data[i] # ret.attn_weights.data[j]

\* C4: every forward step of the global attention decoder, called with the
\* arguments in the order the class declares, returns a context vector of shape
\* (batch, 1, hidden_dim), so that it can be passed as last_context to the next step.
C4_GlobalStepReturnsContext ==
    (ret.op = "forward" /\ dec.variant = "GloballyAttentiveDecoder"
        /\ ret.argnames = ForwardParams(dec.variant)) =>
        /\ ret.raised = ""
        /\ ret.context_vector.shape = <<start.B, 1, Cfg.nhid>>

\* C5: the hidden state a forward step returns has the form and shape of the
\* hidden state the decode started from: a tensor of shape
\* (num_layers, batch, hidden_dim) for GRU and the plain recurrent types, a pair of
\* such tensors for LSTM.
C5_HiddenFormPreserved ==
    Returned =>
        /\ ret.hidden.kind = start.hidden.kind
        /\ ret.hidden.kind = IF Cfg.model = "LSTM" THEN "tuple" ELSE "tensor"
        /\ ret.hidden.h.shape = <<Cfg.nlayers, start.B, Cfg.nhid>>
        /\ ret.hidden.h.shape = start.hidden.h.shape
        /\ ret.hidden.c.shape = start.hidden.c.shape

C5_Witness ==
    /\ Returned
    /\ steps >= 2
    /\ ~ret.repeat
    /\ Cfg.model = "LSTM"
    /\ Cfg.nlayers = 2
    /\ start.B = 2
    /\ ret.hidden # start.hidden

\* C6 as stated: the global attention decoder's forward takes the encoder outputs
\* as its third positional argument and the previous context as its fourth.
C6_GlobalTakesEncoderOutputsThird ==
    (ret.op = "forward" /\ dec.variant = "GloballyAttentiveDecoder") =>
        /\ ret.used["encoder_outputs"] = ret.argnames[3]
        /\ ret.used["last_context"] = ret.argnames[4]

\* C6: forward binds its positional arguments as (tokens, hidden) in the basic
\* decoder, (tokens, hidden, encoder_outputs) in the naive and the local attention
\* decoder and (tokens, hidden, last_context, encoder_outputs) in the global one,
\* whose attention weights therefore have one column per position of its fourth
\* argument; it returns (output, hidden), (output, hidden, attention_weights) or, in
\* the global decoder, (output, hidden, context_vector, attention_weights).
C6_ForwardArgumentOrder ==
    ret.op = "forward" =>
        /\ ret.used["input"] = ret.argnames[1]
        /\ ret.used["hidden"] = ret.argnames[2]
        /\ dec.variant = "Decoder" => DOMAIN ret.used = {"input", "hidden"}
        /\ dec.variant \in {"AttentionDecoder", "LocallyAttentiveDecoder"} =>
               ret.used["encoder_outputs"] = ret.argnames[3]
        /\ dec.variant = "GloballyAttentiveDecoder" =>
               /\ ret.used["last_context"] = ret.argnames[3]
               /\ ret.used["encoder_outputs"] = ret.argnames[4]
               /\ ret.raised = "" =>
                      ret.attn_weights.shape[2] = SizeAt(CallerVar(ret.argnames[4]), 1)
        /\ ret.raised = "" =>
               ret.names = CASE dec.variant = "Decoder" -> <<"output", "hidden">>
                             [] dec.variant = "GloballyAttentiveDecoder" ->
                                   <<"output", "hidden", "context_vector", "attn_weights">>
                             [] OTHER -> <<"output", "hidden", "attn_weights">>

C6_Witness ==
    /\ Returned
    /\ dec.variant = "GloballyAttentiveDecoder"
    /\ ret.argnames = <<"input", "hidden", "last_context", "encoder_outputs">>
    /\ start.S = 2
    /\ ret.attn_weights.shape[2] = 2

\* C7 as stated: a forward call repeated on the same decoder with the same inputs
\* gives the result of the call before it.
C7_RepeatedForwardEqual ==
    (ret.op = "forward" /\ ret.repeat) => Outcome(ret) = prev

\* C7: a forward call repeated on the same decoder with the same inputs gives the
\* result of the call before it when the dropout probability is 0 or the decoder
\* is in evaluation mode.
C7_RepeatedForwardEqualWithoutDropout ==
    (ret.op = "forward" /\ ret.repeat /\ (Cfg.dropout = 0 \/ ~dec.training)) =>
        Outcome(ret) = prev

C7_Witness ==
    /\ Returned
    /\ ret.repeat
    /\ Cfg.dropout > 0
    /\ ~dec.training
    /\ prev.raised = ""
    /\ \E i \in 1..Len(ret.output.data) : ret.output.data[i] # ret.output.data[1]

\* C8: a forward step changes none of the caller's argument tensors and nothing
\* of the decoder object, and the encoder outputs stay those the decode started
\* with.
C8_ForwardLeavesArguments ==
    [][steps' = steps + 1 =>
          /\ caller' = caller
          /\ dec' = dec
          /\ encoder_outputs' = start.encoder_outputs]_vars

C8_Witness ==
    /\ Returned
    /\ steps >= 2
    /\ ~ret.repeat
    /\ dec.variant = "LocallyAttentiveDecoder"
    /\ start.S = 2
    /\ Cfg.nhid = 1

\* C10 as stated: the local attention decoder's predicted position of every batch
\* element is at least 0 and below the source length.
C10_PositionBelowSourceLength ==
    (Returned /\ dec.variant = "LocallyAttentiveDecoder") =>
        \A i \in 1..Len(ret.pt.data) :
            0 <= ret.pt.data[i] /\ ret.pt.data[i] < start.S * One

\* C10: the local attention decoder's predicted position of every batch element
\* is at least 0 and at most the source length.
C10_PositionWithinSourceLength ==
    (Returned /\ dec.variant = "LocallyAttentiveDecoder") =>
        /\ ret.pt.shape = <<start.B>>
        /\ \A i \in 1..Len(ret.pt.data) :
               0 <= ret.pt.data[i] /\ ret.pt.data[i] <= start.S * One

C10_Witness ==
    /\ Returned
    /\ dec.variant = "LocallyAttentiveDecoder"
    /\ \E i, j \in 1..Len(ret.pt.data) :
           ret.pt.data[i] = start.S * One /\ ret.pt.data[j] < start.S * One

\* The stored row i (from 0) of the embedding matrix
EmbeddingRow(weight, i) == [k \in 1..weight.shape[2] |-> At2(weight, i + 1, k)]

\* the rows init_embedding_weights took from the pretrained table
Pretrained == {i \in 0..(Len(ret.dictionary) - 1) : ret.dictionary[i + 1] \in DOMAIN ret.embeddings_index}

\* C9 as stated: after init_embedding_weights, the embedding row of every token
\* found in the pretrained table equals the token's pretrained vector.
C9_RowsEqualPretrained ==
    ret.op = "init_embedding_weights" =>
        \A i \in Pretrained :
            \A k \in 1..Cfg.emsize :
                EmbeddingRow(dec.fields.embedding, i)[k] * (2 ^ ExtraBits)
                    = ret.embeddings_index[ret.dictionary[i + 1]][k]

\* C9: after init_embedding_weights, the embedding row of every token found in the
\* pretrained table is the token's pretrained vector rounded to the precision of
\* the embedding matrix, whatever fallback vectors were drawn for the other
\* tokens; run again with the same vocabulary and table, it leaves these rows as
\* they were.
C9_RowsArePretrainedRounded ==
    ret.op = "init_embedding_weights" =>
        \A i \in Pretrained :
            /\ \A k \in 1..Cfg.emsize :
                   2 * Abs(EmbeddingRow(dec.fields.embedding, i)[k] * (2 ^ ExtraBits)
                             - ret.embeddings_index[ret.dictionary[i + 1]][k])
                       <= 2 ^ ExtraBits
            /\ ret.rerun => EmbeddingRow(dec.fields.embedding, i) = EmbeddingRow(prev, i)

C9_Witness ==
    /\ ret.op = "init_embedding_weights"
    /\ ret.rerun
    /\ Pretrained # {}
    /\ \E i \in 0..(Len(ret.dictionary) - 1) :
           /\ i \notin Pretrained
           /\ EmbeddingRow(dec.fields.embedding, i) # EmbeddingRow(prev, i)

\* the last operation was a forward call and nothing was fed since, so that the
\* caller's variables still hold its arguments
JustCalled == ret.op = "forward" /\ pc \in {"returned", "raised"}

\* C11: in every forward call of the naive attention decoder, for LSTM as for
\* GRU, RNN_TANH and RNN_RELU, the hidden slice concatenated with the embedded
\* input is the (batch, hidden_dim) state of the last recurrent layer, layer index
\* num_layers - 1 of the hidden tensor.
C11_AttendsLastLayer ==
    (JustCalled /\ dec.variant = "AttentionDecoder") =>
        /\ AttendedHidden(Arg("hidden")) = Index0(Arg("hidden").h, Cfg.nlayers - 1)
        /\ AttendedHidden(Arg("hidden")).shape = <<start.B, Cfg.nhid>>

\* the number of times op occurs in a sequence of operations
RECURSIVE Count(_, _)
Count(ops, op) ==
    IF ops = <<>> THEN 0
    ELSE (IF Head(ops) = op THEN 1 ELSE 0) + Count(Tail(ops), op)

\* the arguments of the last forward call are in the declared order and, for the
\* naive attention decoder, the hidden state is the LSTM pair and the source is
\* max_sent_length long
WellFormedCall ==
    /\ ret.argnames = ForwardParams(dec.variant)
    /\ dec.variant = "AttentionDecoder" =>
           /\ Cfg.model = "LSTM"
           /\ dec.fields.attn.out_features = start.S

\* C12: in every variant, for every configuration with num_layers >= 2 and any
\* embedding_dim and hidden_dim, the layer loop of forward runs the recurrent step
\* num_layers times and completes without a shape error.
C12_LayerLoopCompletes ==
    (JustCalled /\ Cfg.nlayers >= 2 /\ WellFormedCall) =>
        /\ ret.raised = ""
        /\ Count(ret.ops, "rnn") = Cfg.nlayers

\* n copies of a sequence of operations, one after the other
RECURSIVE Times(_, _)
Times(n, ops) == IF n = 0 THEN <<>> ELSE ops \o Times(n - 1, ops)

\* C13 as stated: a forward step applies dropout to the embedded input and, in
\* every variant, to the recurrent output after each recurrent step; only the
\* local attention decoder applies the rectified-linear activation before each
\* recurrent step.
C13_DropoutAfterEveryRnn ==
    Returned =>
        ret.ops = <<"embedding", "drop">>
                    \o Times(Cfg.nlayers, IF dec.variant = "LocallyAttentiveDecoder"
                                          THEN <<"relu", "rnn", "drop">>
                                          ELSE <<"rnn", "drop">>)

\* C13: a forward step applies dropout to the embedded input in every variant;
\* the basic and the naive attention decoder apply dropout to the recurrent output
\* after each recurrent step, the global and the local attention decoder do not;
\* only the naive attention decoder applies the rectified-linear activation before
\* each recurrent step.
C13_OperationOrder ==
    Returned =>
        ret.ops = <<"embedding", "drop">>
                    \o Times(Cfg.nlayers,
                             CASE dec.variant = "Decoder" -> <<"rnn", "drop">>
                               [] dec.variant = "AttentionDecoder" -> <<"relu", "rnn", "drop">>
                               [] OTHER -> <<"rnn">>)

C13_Witness ==
    /\ Returned
    /\ dec.variant = "LocallyAttentiveDecoder"
    /\ Cfg.nlayers = 2
    /\ Cfg.dropout > 0
    /\ dec.training
    /\ ret.ops = <<"embedding", "drop", "rnn", "rnn">>

\* ------------------------------------------------------------- inconsistent inputs
\* Forward calls on inputs that disagree with the configuration have their own
\* specification: a caller builds the arguments of a decode with at most one
\* dimension off by one (or the hidden state in the other variant's form) and
\* makes one forward call on them.  A source length that differs from
\* max_sent_length needs no fault: the two are chosen independently.
Faults == {"none", "hidden_layers", "hidden_batch", "hidden_width", "hidden_form",
           "encoder_batch", "encoder_width", "context_batch", "context_width"}

ShapeConfigs == {c \in Configs : c.model \in SupportedModels /\ c.dropout = 0}

ConstructConsistent == ConstructIn(ShapeConfigs)

StartDecodeOff ==
    /\ pc = "ready"
    /\ \E B \in 1..MaxBatch, S \in 1..MaxLen, fault \in Faults :
          LET cfg   == dec.fields.config
              d(f)  == IF fault = f THEN 1 ELSE 0
              t     == Full(<<cfg.nlayers + d("hidden_layers"), B + d("hidden_batch"),
                              cfg.nhid + d("hidden_width")>>, 0)
              pair  == (cfg.model = "LSTM") # (fault = "hidden_form")
              h     == IF pair THEN HTuple(t, t) ELSE HTensor(t)
              enc   == EncoderOutputs(B + d("encoder_batch"), S, cfg.nhid + d("encoder_width"))
          IN  /\ input' = Tokens(B, 0)
              /\ hidden' = h
              /\ last_context' = Full(<<B + d("context_batch"), 1,
                                        cfg.nhid + d("context_width")>>, 0)
              /\ encoder_outputs' = enc
              /\ start' = [B |-> B, S |-> S, hidden |-> h, encoder_outputs |-> enc]
    /\ pc' = "decoding"
    /\ ret' = NoCall
    /\ prev' = NoCall
    /\ steps' = MaxSteps - 1
    /\ UNCHANGED <<dec, ctor, rng, nprng>>

InitShape == Init /\ rng = 0

NextShape == ConstructConsistent \/ StartDecodeOff \/ ForwardStep

SpecShape == InitShape /\ [][NextShape]_vars

\* the arguments of the last forward call agree with the configuration: a token
\* batch of B rows, a hidden state of the model's form and of shape
\* (nlayers, B, nhid), encoder outputs of shape (B, source_length, nhid) with
\* source_length = max_sent_length for the naive attention decoder, and a context
\* of shape (B, 1, nhid)
ConsistentCall ==
    LET B == SizeAt(Arg("input"), 0)
        h == Arg("hidden")
    IN  /\ h.kind = IF Cfg.model = "LSTM" THEN "tuple" ELSE "tensor"
        /\ h.h.shape = <<Cfg.nlayers, B, Cfg.nhid>>
        /\ h.kind = "tuple" => h.c.shape = h.h.shape
        /\ "encoder_outputs" \in DOMAIN ret.used =>
               /\ Rank(Arg("encoder_outputs")) = 3
               /\ Arg("encoder_outputs").shape[1] = B
               /\ Arg("encoder_outputs").shape[3] = Cfg.nhid
               /\ dec.variant = "AttentionDecoder" =>
                      Arg("encoder_outputs").shape[2] = dec.fields.attn.out_features
        /\ "last_context" \in DOMAIN ret.used =>
               Arg("last_context").shape = <<B, 1, Cfg.nhid>>

\* C14: a forward call whose arguments disagree in a dimension with the decoder's
\* configuration raises an error and returns nothing; in particular a naive
\* attention step on encoder outputs whose source length is not max_sent_length
\* raises instead of returning attention weights or log-probabilities.
C14_InconsistentCallRaises ==
    (JustCalled /\ ~ConsistentCall) =>
        /\ ret.raised # ""
        /\ pc = "raised"
        /\ ret.names = <<>>
        /\ IsErr(ret.output)

C14_Witness ==
    /\ JustCalled
    /\ dec.variant = "AttentionDecoder"
    /\ Cfg.model = "LSTM"
    /\ Cfg.emsize = Cfg.nhid
    /\ Arg("hidden").h.shape = <<Cfg.nlayers, start.B, Cfg.nhid>>
    /\ Arg("encoder_outputs").shape = <<start.B, start.S, Cfg.nhid>>
    /\ start.S # dec.fields.attn.out_features
    /\ ret.raised = "RuntimeError: bmm size mismatch"

=============================================================================
